---- MODULE Spec2Model ----
\* Model of the DC2 catalog readers of GCRCatalogs:
\*   GCRCatalogs/dc2_dm_catalog.py  (DC2DMCatalog, create_basic_flag_mask)
\*   GCRCatalogs/dc2_truth22i.py    (DC2Truth22CatalogReader)
\* File names and column names are sequences of one-character strings, so that
\* sorted(), re.match() and str.endswith() are computed character by character.
\* SQL text is built from TLA+ strings with \o, as the code builds it with
\* str.format() and str.join().
EXTENDS Integers, Sequences, FiniteSets, TLC

VARIABLES
    \* ---- the file system under base_dir (DC2DMCatalog) ----
    baseDirOk,            \* os.path.isdir(base_dir)
    listing,              \* os.listdir(base_dir): a set of file names
    openOutcome,          \* per file: what pq.ParquetFile(path) does
    fileFields,           \* per file: df.dtypes.to_dict() of its table
    schemaFile,           \* content of <schema_path>, or Absent
    bakFile,              \* content of <schema_path>.bak, or Absent
    \* ---- the DC2DMCatalog instance ----
    status,               \* "new", "ready" (constructed) or "failed"
    error,                \* the exception that ended the last failing call
    use_cache,
    is_dpdd,
    _schema,
    _file_handles,        \* dict: file path -> handle
    _datasets,            \* list of handles
    dm_schema_version,
    _quantity_modifiers,
    _native_filter_quantities,
    heap,                 \* every ParquetFile object constructed: heap[h]
    openLog,              \* what _open_parquet returned / close_all calls, in order
    \* ---- one generator object made by _iter_native_dataset ----
    gen,                  \* [pc, idx, filters]
    yielded,              \* the getters it has yielded (the dataset each is bound to)
    cleared,              \* the datasets whose cache it has cleared
    \* ---- one call of generate_schema_yaml ----
    gsy,                  \* [pc, overwrite, schema] and, for the record, the two
                          \* files as the call found them (prev, prevBak), the file
                          \* the last finished call wrote (made) and what that was
                          \* when this call began (madeAtCall)
    \* ---- DC2Truth22CatalogReader ----
    tr_status,            \* "new", "ready" (constructed) or "failed"
    tr_kwargs,            \* the base_filters keyword as given
    base_filters,         \* self.base_filters
    tr_gen,               \* generator of _iter_native_dataset: [pc, filters]
    tr_getter,            \* the yielded getter's closure: [live, where, filters]
    tr_queries,           \* cursor.execute() calls, in order
    tr_calls,             \* the number of getter calls made
    \* ---- create_basic_flag_mask ----
    mk_flags,             \* the *flags argument
    mk_result             \* the call's outcome

envVars == <<baseDirOk, listing, openOutcome, fileFields>>
fileVars == <<schemaFile, bakFile>>
catVars == <<status, error, use_cache, is_dpdd, _schema, _file_handles, _datasets,
             dm_schema_version, _quantity_modifiers, _native_filter_quantities, heap,
             openLog>>
genVars == <<gen, yielded, cleared>>
dmVars == <<envVars, fileVars, catVars, genVars, gsy>>
trVars == <<tr_status, tr_kwargs, base_filters, tr_gen, tr_getter, tr_queries, tr_calls>>
mkVars == <<mk_flags, mk_result>>
vars == <<dmVars, trVars, mkVars>>

\* ------------------------------------------------------------------ bounds
MaxEntries == 3
MaxOps == 4
MaxFlags == 2
MaxLen == 3
MaxQueries == 2

\* ------------------------------------------------------------------ characters
\* The characters used, in code-point order: '.' < digits < upper < '_' < lower.
Alphabet ==
    <<".", "0", "1", "2", "E", "S", "_", "a", "b", "c", "d", "e", "f", "g", "i",
      "k", "l", "m", "o", "p", "q", "r", "s", "t", "u", "v", "x", "y">>

Ord(c) == CHOOSE i \in 1..Len(Alphabet) : Alphabet[i] = c

Digits == {"0", "1", "2"}

\* str < str in Python: the first differing character decides, a proper prefix
\* is smaller.
RECURSIVE StrLess(_, _)
StrLess(a, b) ==
    IF a = <<>> THEN b # <<>>
    ELSE IF b = <<>> THEN FALSE
    ELSE IF Head(a) # Head(b) THEN Ord(Head(a)) < Ord(Head(b))
    ELSE StrLess(Tail(a), Tail(b))

\* sorted(names, reverse=True).
SortedDescending(S) ==
    LET RECURSIVE Go(_)
        Go(T) == IF T = {} THEN <<>>
                 ELSE LET m == CHOOSE x \in T : \A y \in T \ {x} : StrLess(y, x)
                      IN <<m>> \o Go(T \ {m})
    IN Go(S)

\* sorted(names) for a set of distinct names.
Sorted(S) ==
    LET RECURSIVE Go(_)
        Go(T) == IF T = {} THEN <<>>
                 ELSE LET m == CHOOSE x \in T : \A y \in T \ {x} : StrLess(x, y)
                      IN <<m>> \o Go(T \ {m})
    IN Go(S)

EndsWith(s, suf) ==
    /\ Len(s) >= Len(suf)
    /\ SubSeq(s, Len(s) - Len(suf) + 1, Len(s)) = suf

\* ------------------------------------------------------------------ file names
SOURCE_VISIT == <<"s", "o", "u", "r", "c", "e", "_", "v", "i", "s", "i", "t", "_">>
DOT_PARQUET == <<".", "p", "a", "r", "q", "u", "e", "t">>

\* FILE_PATTERN = r'source_visit_\d+\.parquet$' as literal prefix, \d+, literal
\* suffix, end of string.
FILE_PATTERN == [prefix |-> SOURCE_VISIT, suffix |-> DOT_PARQUET]

\* self._filename_re.match(fname): anchored at the start of fname, and by the
\* pattern's $ at its end.
ReMatch(pat, fname) ==
    LET lp == Len(pat.prefix)
        ls == Len(pat.suffix)
        n == Len(fname)
    IN /\ n >= lp + 1 + ls
       /\ SubSeq(fname, 1, lp) = pat.prefix
       /\ SubSeq(fname, n - ls + 1, n) = pat.suffix
       /\ \A i \in (lp + 1)..(n - ls) : fname[i] \in Digits

Visit1 == SOURCE_VISIT \o <<"1">> \o DOT_PARQUET
Visit10 == SOURCE_VISIT \o <<"1", "0">> \o DOT_PARQUET
Visit2 == SOURCE_VISIT \o <<"2">> \o DOT_PARQUET
NoDigits == SOURCE_VISIT \o DOT_PARQUET
Trailing == Visit1 \o <<".", "b", "a", "k">>
Leading == <<"x">> \o Visit2

\* The names a directory entry is drawn from.
FileUniverse == {Visit1, Visit10, Visit2, NoDigits, Trailing, Leading}

\* ------------------------------------------------------------------ columns
FLUX_SIGMA == <<"_", "f", "l", "u", "x", "S", "i", "g", "m", "a">>
FLUX_ERR == <<"_", "f", "l", "u", "x", "E", "r", "r">>
FLAG_BAD == <<"_", "f", "l", "a", "g", "_", "b", "a", "d">>

ColSigma == <<"g">> \o FLUX_SIGMA
ColErr == <<"r">> \o FLUX_ERR
ColErrMid == FLUX_ERR \o <<"x">>
ColRa == <<"r", "a">>
ColFlag == <<"i">> \o FLAG_BAD
FLAG_NO_GOOD_PIXELS ==
    <<"_", "f", "l", "a", "g", "_", "n", "o", "G", "o", "o", "d", "P", "i", "x", "e", "l", "s">>

EmptyDict == [c \in {} |-> 0]

\* df.dtypes.to_dict() of the tables a file may hold.
FieldChoices ==
    { EmptyDict,
      [c \in {ColSigma, ColErr} |-> "float64"],
      [c \in {ColErr, ColFlag} |-> IF c = ColFlag THEN "bool" ELSE "float64"],
      [c \in {ColRa, ColErrMid} |-> "float64"] }

\* A file of the schema location: absent, or a YAML document. The empty
\* document is what yaml.load gives as None; otherwise the document is a dict.
Absent == [exists |-> FALSE, isNull |-> FALSE, d |-> EmptyDict]
YamlFile(isNull, d) == [exists |-> TRUE, isNull |-> isNull, d |-> d]

SchemaFileChoices ==
    { Absent,
      YamlFile(TRUE, EmptyDict),
      YamlFile(FALSE, EmptyDict),
      YamlFile(FALSE, [c \in {ColSigma, ColErr} |-> [dtype |-> "float64"]]),
      YamlFile(FALSE, [c \in {ColRa} |-> [dtype |-> "float64"]]) }

\* self._schema: None, or a dict column -> {'dtype': ..., 'default': ...}.
SchemaNone == [isNone |-> TRUE, d |-> EmptyDict]
Schema(d) == [isNone |-> FALSE, d |-> d]

\* ------------------------------------------------------------------ handles
\* pq.ParquetFile(file_path): a new object, heap[h], with an empty content cache.
ParquetFile(hp, file_path) == Append(hp, [path |-> file_path, cache |-> {}])

\* What constructing a ParquetFile for file_path does: "ok", or the exception.
\* A path that is no entry of the directory raises FileNotFoundError (an OSError).
Outcome(file_path) ==
    IF file_path \in listing THEN openOutcome[file_path] ELSE "IOError"

OpenEvent(file_path, h) == [op |-> "open", path |-> file_path, handle |-> h]
CloseEvent == [op |-> "close", path |-> <<>>, handle |-> 0]

\* _open_parquet without the cache test: every call constructs a handle.
OpenParquetUncached(cat, file_path) ==
    IF Outcome(file_path) # "ok"
    THEN [cat |-> cat, raised |-> Outcome(file_path), handle |-> 0]
    ELSE LET h == Len(cat.heap) + 1
         IN [cat |-> [fh |-> [p \in DOMAIN cat.fh \cup {file_path} |->
                                 IF p = file_path THEN h ELSE cat.fh[p]],
                      heap |-> ParquetFile(cat.heap, file_path),
                      log |-> Append(cat.log, OpenEvent(file_path, h))],
             raised |-> "", handle |-> h]

\* _open_parquet(file_path) on cat = [fh: _file_handles, heap, log]: the state
\* after the call, the exception it raised ("" for none) and the handle returned.
OpenParquet(cat, file_path) ==
    IF file_path \in DOMAIN cat.fh
    THEN [cat |-> [cat EXCEPT !.log = Append(@, OpenEvent(file_path, cat.fh[file_path]))],
          raised |-> "", handle |-> cat.fh[file_path]]
    ELSE IF Outcome(file_path) # "ok"
    THEN [cat |-> cat, raised |-> Outcome(file_path), handle |-> 0]
    ELSE LET h == Len(cat.heap) + 1
         IN [cat |-> [fh |-> [p \in DOMAIN cat.fh \cup {file_path} |->
                                 IF p = file_path THEN h ELSE cat.fh[p]],
                      heap |-> ParquetFile(cat.heap, file_path),
                      log |-> Append(cat.log, OpenEvent(file_path, h))],
             raised |-> "", handle |-> h]

\* close_all_file_handles(): del fh unbinds the loop variable only, then the
\* dict is cleared.
CloseAllFileHandles(fh) == EmptyDict

\* ------------------------------------------------------------------ discovery
\* _generate_datasets(): the state after it, the exception that left it ("" for
\* none) and the list it built.
GenerateDatasets(cat) ==
    LET RECURSIVE Go(_, _, _)
        Go(names, c, ds) ==
            IF names = <<>> THEN [cat |-> c, raised |-> "", datasets |-> ds]
            ELSE LET fname == Head(names)
                 IN IF ~ReMatch(FILE_PATTERN, fname) THEN Go(Tail(names), c, ds)
                    ELSE LET r == OpenParquet(c, fname)
                         IN IF r.raised = "IOError"
                            THEN Go(Tail(names), r.cat, ds)
                            ELSE IF r.raised # ""
                            THEN [cat |-> r.cat, raised |-> r.raised, datasets |-> ds]
                            ELSE Go(Tail(names), r.cat, Append(ds, r.handle))
    IN Go(Sorted(listing), cat, <<>>)

\* ------------------------------------------------------------------ schema
\* _generate_schema_from_yaml(schema_path): yaml.load of the file.
GenerateSchemaFromYaml(content) ==
    IF content.isNull THEN SchemaNone ELSE Schema(content.d)

\* `not self._schema`: None and the empty dict are both falsy.
Falsy(schema) == schema.isNone \/ DOMAIN schema.d = {}

\* dataset.read(): the whole table, which the dataset's content cache then holds.
ReadAll(hp, h) == [hp EXCEPT ![h].cache = DOMAIN fileFields[hp[h].path]]

\* _generate_schema_from_datafiles(datasets): the dict built, and the heap after
\* the reads. The loop stops at the first dataset with a non-empty field dict.
GenerateSchemaFromDatafiles(datasets, hp) ==
    LET RECURSIVE Go(_, _)
        Go(ds, h0) ==
            IF ds = <<>> THEN [schema |-> EmptyDict, heap |-> h0]
            ELSE LET ff == fileFields[h0[Head(ds)].path]
                     native_schema == [k \in DOMAIN ff |-> [dtype |-> ff[k]]]
                     h1 == ReadAll(h0, Head(ds))
                 IN IF DOMAIN native_schema # {}
                    THEN [schema |-> native_schema, heap |-> h1]
                    ELSE Go(Tail(ds), h1)
    IN Go(datasets, hp)

\* ------------------------------------------------------------------ versions
\* The detection with the two tests in the other order.
DetectVersionErrFirst(schema) ==
    IF \E col \in DOMAIN schema : EndsWith(col, FLUX_ERR) THEN 2
    ELSE IF \E col \in DOMAIN schema : EndsWith(col, FLUX_SIGMA) THEN 1
    ELSE 3

\* The if / elif / else over the schema's column names.
DetectVersion(schema) ==
    IF \E col \in DOMAIN schema : EndsWith(col, FLUX_SIGMA) THEN 1
    ELSE IF \E col \in DOMAIN schema : EndsWith(col, FLUX_ERR) THEN 2
    ELSE 3

\* _generate_modifiers(dm_schema_version) of the base class: an empty dict.
GenerateModifiers(dm_version) == EmptyDict

\* ------------------------------------------------------------------ __init__
NewGen == [pc |-> "none", idx |-> 0, filters |-> [isNone |-> TRUE, v |-> <<>>]]
NewGsy == [pc |-> "idle", overwrite |-> FALSE, prev |-> Absent, prevBak |-> Absent,
           schema |-> EmptyDict, made |-> Absent, madeAtCall |-> Absent]

ErrBaseDir == "ValueError: base_dir is not a valid directory"
ErrNoCatalogs == "RuntimeError: No catalogs were found in base_dir"

\* _generate_native_quantity_list(): set(self._schema).
GenerateNativeQuantityList(schema) == DOMAIN schema.d

\* _subclass_init(base_dir=..., use_cache=uc, is_dpdd=dpdd) on a new instance.
\* _generate_info_dict(META_PATH) reads the metadata file packaged with the
\* module; its dict takes no part in what follows and is not kept here.
SubclassInit(uc, dpdd) ==
    /\ status = "new"
    /\ use_cache' = uc
    /\ is_dpdd' = dpdd
    /\ LET yamlSchema == IF schemaFile.exists THEN GenerateSchemaFromYaml(schemaFile)
                         ELSE SchemaNone
           found == GenerateDatasets([fh |-> EmptyDict, heap |-> heap, log |-> openLog])
           inferred == GenerateSchemaFromDatafiles(found.datasets, found.cat.heap)
           schema == IF Falsy(yamlSchema) THEN Schema(inferred.schema) ELSE yamlSchema
       IN IF ~baseDirOk
          THEN /\ status' = "failed"
               /\ error' = ErrBaseDir
               /\ UNCHANGED <<_schema, _file_handles, _datasets, dm_schema_version,
                              _quantity_modifiers, _native_filter_quantities, heap,
                              openLog>>
          ELSE IF found.raised # ""
          THEN /\ status' = "failed"
               /\ error' = found.raised
               /\ _schema' = yamlSchema
               /\ _file_handles' = found.cat.fh
               /\ heap' = found.cat.heap
               /\ openLog' = found.cat.log
               /\ UNCHANGED <<_datasets, dm_schema_version, _quantity_modifiers,
                              _native_filter_quantities>>
          ELSE IF found.datasets = <<>>
          THEN /\ status' = "failed"
               /\ error' = ErrNoCatalogs
               /\ _schema' = yamlSchema
               /\ _file_handles' = found.cat.fh
               /\ heap' = found.cat.heap
               /\ openLog' = found.cat.log
               /\ _datasets' = found.datasets
               /\ UNCHANGED <<dm_schema_version, _quantity_modifiers,
                              _native_filter_quantities>>
          ELSE /\ status' = "ready"
               /\ error' = ""
               /\ _schema' = schema
               /\ _file_handles' = found.cat.fh
               /\ heap' = IF Falsy(yamlSchema) THEN inferred.heap ELSE found.cat.heap
               /\ openLog' = found.cat.log
               /\ _datasets' = found.datasets
               /\ dm_schema_version' = IF dpdd THEN 0 ELSE DetectVersion(schema.d)
               /\ _quantity_modifiers' =
                      IF dpdd THEN [col \in DOMAIN schema.d |-> "None"]
                      ELSE GenerateModifiers(DetectVersion(schema.d))
               /\ _native_filter_quantities' = GenerateNativeQuantityList(schema)
    /\ UNCHANGED <<envVars, fileVars, genVars, gsy, trVars, mkVars>>

Construct == \E uc \in BOOLEAN, dpdd \in BOOLEAN : SubclassInit(uc, dpdd)

\* ------------------------------------------------------------------ initial states
\* The instance before _subclass_init.
NewCatalog ==
    /\ status = "new"
    /\ error = ""
    /\ use_cache = TRUE
    /\ is_dpdd = FALSE
    /\ _schema = SchemaNone
    /\ _file_handles = EmptyDict
    /\ _datasets = <<>>
    /\ dm_schema_version = 0
    /\ _quantity_modifiers = EmptyDict
    /\ _native_filter_quantities = {}
    /\ heap = <<>>
    /\ openLog = <<>>
    /\ gen = NewGen
    /\ yielded = <<>>
    /\ cleared = <<>>
    /\ gsy = NewGsy

MatchingUniverse == {f \in FileUniverse : ReMatch(FILE_PATTERN, f)}

\* A directory of at most MaxEntries entries. What opening a file does (one of
\* outcomes) and what it holds (one of tables) vary over the files the pattern
\* selects; the others are never opened.
Directory(outcomes, tables) ==
    /\ listing \in {L \in SUBSET FileUniverse : Cardinality(L) <= MaxEntries}
    /\ \E oo \in [listing \cap MatchingUniverse -> outcomes] :
           openOutcome = [f \in FileUniverse |-> IF f \in DOMAIN oo THEN oo[f] ELSE "ok"]
    /\ \E ff \in [listing \cap MatchingUniverse -> tables] :
           fileFields = [f \in FileUniverse |-> IF f \in DOMAIN ff THEN ff[f] ELSE EmptyDict]

NoTruthReader ==
    /\ tr_status = "unused"
    /\ tr_kwargs = [tag |-> "none", s |-> "", v |-> <<>>]
    /\ base_filters = <<>>
    /\ tr_gen = [pc |-> "none", filters |-> [isNone |-> TRUE, v |-> <<>>]]
    /\ tr_getter = [live |-> FALSE, where |-> "", filters |-> [isNone |-> TRUE, v |-> <<>>]]
    /\ tr_queries = <<>>
    /\ tr_calls = 0

NoMask ==
    /\ mk_flags = <<>>
    /\ mk_result = [kind |-> "none", out |-> <<>>]

\* Discovery: any directory, files that open, raise an I/O error or raise
\* another error.
InitDiscovery ==
    /\ baseDirOk \in BOOLEAN
    /\ Directory({"ok", "IOError", "ArrowInvalid"},
                 {EmptyDict, [c \in {ColRa, ColErrMid} |-> "float64"]})
    /\ ~baseDirOk => listing = {}
    /\ schemaFile \in {Absent, YamlFile(FALSE, [c \in {ColRa} |-> [dtype |-> "float64"]])}
    /\ bakFile = Absent
    /\ NewCatalog
    /\ NoTruthReader
    /\ NoMask

NextDiscovery == Construct

SpecDiscovery == InitDiscovery /\ [][NextDiscovery]_vars

\* Schema resolution: files that open, any table in each, any schema file.
InitResolve ==
    /\ baseDirOk = TRUE
    /\ Directory({"ok"}, FieldChoices)
    /\ schemaFile \in SchemaFileChoices
    /\ bakFile = Absent
    /\ NewCatalog
    /\ NoTruthReader
    /\ NoMask

NextResolve == Construct

SpecResolve == InitResolve /\ [][NextResolve]_vars

\* ------------------------------------------------------------------ iteration
\* The native_filters argument: None, or a list of filter strings.
NoFilters == [isNone |-> TRUE, v |-> <<>>]
FilterList(v) == [isNone |-> FALSE, v |-> v]

FilterChoices == {NoFilters, FilterList(<<>>), FilterList(<<"ra > 0">>)}

\* The loop advancing two datasets at a time.
NextYieldSkipping(k, native_filters, n) ==
    IF native_filters.isNone /\ k + 1 < n THEN k + 2 ELSE 0

\* The for loop of _iter_native_dataset from the dataset after the k-th, over n
\* datasets: the index of the next dataset whose getter is yielded, 0 when the
\* loop ends without a yield. The yield stands under `if native_filters is None`.
NextYield(k, native_filters, n) ==
    IF native_filters.isNone /\ k < n THEN k + 1 ELSE 0

\* dataset.clear_cache() of one dataset.
DatasetClearCache(hp, h) == [hp EXCEPT ![h].cache = {}]

\* self._iter_native_dataset(native_filters): a new generator object; none of its
\* body has run.
IterNativeDataset(native_filters) ==
    /\ status = "ready"
    /\ gen' = [pc |-> "created", idx |-> 0, filters |-> native_filters]
    /\ yielded' = <<>>
    /\ cleared' = <<>>
    /\ UNCHANGED <<envVars, fileVars, catVars, gsy, trVars, mkVars>>

\* next(generator): the body runs from where it stands to the next yield, or to
\* its end. Resuming after a yield first runs the two lines under the yield.
IterNext ==
    /\ gen.pc \in {"created", "suspended"}
    /\ LET resumed == gen.pc = "suspended"
           clears == resumed /\ ~use_cache
           h == _datasets[gen.idx]
           nxt == NextYield(gen.idx, gen.filters, Len(_datasets))
       IN /\ heap' = IF clears THEN DatasetClearCache(heap, h) ELSE heap
          /\ cleared' = IF clears THEN Append(cleared, h) ELSE cleared
          /\ IF nxt = 0
             THEN /\ gen' = [gen EXCEPT !.pc = "exhausted"]
                  /\ yielded' = yielded
             ELSE /\ gen' = [gen EXCEPT !.pc = "suspended", !.idx = nxt]
                  /\ yielded' = Append(yielded, _datasets[nxt])
    /\ UNCHANGED <<envVars, fileVars, status, error, use_cache, is_dpdd, _schema,
                   _file_handles, _datasets, dm_schema_version, _quantity_modifiers,
                   _native_filter_quantities,
                   openLog, gsy, trVars, mkVars>>

\* native_quantity_getter(native_quantity) of the i-th getter yielded:
\* dataset.read(columns=[native_quantity]) on the dataset it is bound to.
GetterCall(i, native_quantity) ==
    /\ i \in 1..Len(yielded)
    /\ native_quantity \in DOMAIN fileFields[heap[yielded[i]].path]
    /\ heap' = [heap EXCEPT ![yielded[i]].cache = @ \cup {native_quantity}]
    /\ UNCHANGED <<envVars, fileVars, status, error, use_cache, is_dpdd, _schema,
                   _file_handles, _datasets, dm_schema_version, _quantity_modifiers,
                   _native_filter_quantities,
                   openLog, genVars, gsy, trVars, mkVars>>

\* clear_cache(): every dataset of the catalog.
ClearCache ==
    /\ status = "ready"
    /\ heap' = [h \in DOMAIN heap |->
                  IF \E i \in DOMAIN _datasets : _datasets[i] = h
                  THEN [heap[h] EXCEPT !.cache = {}] ELSE heap[h]]
    /\ UNCHANGED <<envVars, fileVars, status, error, use_cache, is_dpdd, _schema,
                   _file_handles, _datasets, dm_schema_version, _quantity_modifiers,
                   _native_filter_quantities,
                   openLog, genVars, gsy, trVars, mkVars>>

IterCalls == \E nf \in FilterChoices : IterNativeDataset(nf)
GetterCalls == \E i \in 1..MaxEntries, q \in {ColRa, ColErrMid} : GetterCall(i, q)

\* Iteration: a directory of files that open, each with two columns.
InitIter ==
    /\ baseDirOk = TRUE
    /\ Directory({"ok"}, {[c \in {ColRa, ColErrMid} |-> "float64"]})
    /\ schemaFile \in {Absent, YamlFile(FALSE, [c \in {ColRa} |-> [dtype |-> "float64"]])}
    /\ bakFile = Absent
    /\ NewCatalog
    /\ NoTruthReader
    /\ NoMask

NextIter ==
    \/ Construct
    \/ IterCalls
    \/ IterNext
    \/ GetterCalls
    \/ ClearCache

SpecIter == InitIter /\ [][NextIter]_vars

\* ------------------------------------------------------------------ handle cache
\* self._open_parquet(file_path) called on the constructed catalog.
OpenParquetCall(file_path) ==
    /\ status = "ready"
    /\ Len(openLog) < Len(_datasets) + MaxOps
    /\ LET r == OpenParquet([fh |-> _file_handles, heap |-> heap, log |-> openLog],
                            file_path)
       IN /\ _file_handles' = r.cat.fh
          /\ heap' = r.cat.heap
          /\ openLog' = r.cat.log
          /\ error' = r.raised
    /\ UNCHANGED <<envVars, fileVars, status, use_cache, is_dpdd, _schema, _datasets,
                   dm_schema_version, _quantity_modifiers,
                   _native_filter_quantities, genVars, gsy, trVars, mkVars>>

\* self.close_all_file_handles() called on the constructed catalog.
CloseAllCall ==
    /\ status = "ready"
    /\ Len(openLog) < Len(_datasets) + MaxOps
    /\ _file_handles' = CloseAllFileHandles(_file_handles)
    /\ openLog' = Append(openLog, CloseEvent)
    /\ UNCHANGED <<envVars, fileVars, status, error, use_cache, is_dpdd, _schema,
                   _datasets, dm_schema_version, _quantity_modifiers,
                   _native_filter_quantities, heap, genVars,
                   gsy, trVars, mkVars>>

\* The paths opened after construction: two the pattern selects, one it does not.
OpenPaths == {Visit1, Visit2, NoDigits}

OpenCalls == \E p \in OpenPaths : OpenParquetCall(p)

\* Handles: files that open or raise an I/O error.
InitHandles ==
    /\ baseDirOk = TRUE
    /\ Directory({"ok", "IOError"}, {[c \in {ColRa} |-> "float64"]})
    /\ schemaFile = YamlFile(FALSE, [c \in {ColRa} |-> [dtype |-> "float64"]])
    /\ bakFile = Absent
    /\ NewCatalog
    /\ NoTruthReader
    /\ NoMask

NextHandles ==
    \/ SubclassInit(TRUE, FALSE)
    \/ OpenCalls
    \/ CloseAllCall

SpecHandles == InitHandles /\ [][NextHandles]_vars

\* ------------------------------------------------------------------ generate_schema_yaml
\* The call is taken in four steps, one for each point at which it changes a
\* file or may stop: what is on disk between two steps is what a reader of the
\* directory, or a call ended there by an exception, finds.
ErrSchemaExists == "RuntimeError: Schema file already exists! Set overwrite=True to overwrite."

\* The backup step left out: the .bak file stays as it was.
CopyFileSkipped(src, dst) == dst

\* shutil.copyfile(src, dst): dst's content after the copy.
CopyFile(src, dst) == src

\* open(path, 'w'): the file exists and is empty, which yaml.load reads as None.
Truncated == YamlFile(TRUE, EmptyDict)

\* The loop over schema.items() setting 'default' on the boolean flag columns.
InjectDefaults(schema) ==
    [col \in DOMAIN schema |->
        IF /\ schema[col].dtype = "bool"
           /\ (EndsWith(col, FLAG_BAD) \/ EndsWith(col, FLAG_NO_GOOD_PIXELS))
        THEN [dtype |-> schema[col].dtype, default |-> TRUE]
        ELSE schema[col]]

\* generate_schema_yaml(overwrite), lines 260-264: the test of the existing
\* file, the refusal, the backup copy.
GsyCall(overwrite) ==
    /\ status = "ready"
    /\ gsy.pc \in {"idle", "refused", "done"}
    /\ IF schemaFile.exists /\ ~overwrite
       THEN /\ gsy' = [gsy EXCEPT !.pc = "refused", !.overwrite = overwrite,
                                  !.prev = schemaFile, !.prevBak = bakFile,
                                  !.madeAtCall = gsy.made]
            /\ error' = ErrSchemaExists
            /\ bakFile' = bakFile
       ELSE /\ gsy' = [gsy EXCEPT !.pc = "generate", !.overwrite = overwrite,
                                  !.prev = schemaFile, !.prevBak = bakFile,
                                  !.madeAtCall = gsy.made]
            /\ error' = ""
            /\ bakFile' = IF schemaFile.exists THEN CopyFile(schemaFile, bakFile)
                          ELSE bakFile
    /\ UNCHANGED <<envVars, schemaFile, status, use_cache, is_dpdd, _schema,
                   _file_handles, _datasets, dm_schema_version, _quantity_modifiers,
                   _native_filter_quantities,
                   heap, openLog, genVars, trVars, mkVars>>

\* lines 266-271: the schema read from the datafiles, with the defaults.
GsyGenerate ==
    /\ gsy.pc = "generate"
    /\ LET inferred == GenerateSchemaFromDatafiles(_datasets, heap)
       IN /\ gsy' = [gsy EXCEPT !.pc = "open", !.schema = InjectDefaults(inferred.schema)]
          /\ heap' = inferred.heap
    /\ UNCHANGED <<envVars, fileVars, status, error, use_cache, is_dpdd, _schema,
                   _file_handles, _datasets, dm_schema_version, _quantity_modifiers,
                   _native_filter_quantities,
                   openLog, genVars, trVars, mkVars>>

\* line 273: open(self._schema_path, 'w').
GsyOpen ==
    /\ gsy.pc = "open"
    /\ gsy' = [gsy EXCEPT !.pc = "dump"]
    /\ schemaFile' = Truncated
    /\ UNCHANGED <<envVars, bakFile, catVars, genVars, trVars, mkVars>>

\* line 274: yaml.dump(schema, schema_stream), and the file is closed.
GsyDump ==
    /\ gsy.pc = "dump"
    /\ schemaFile' = YamlFile(FALSE, gsy.schema)
    /\ gsy' = [gsy EXCEPT !.pc = "done", !.made = YamlFile(FALSE, gsy.schema)]
    /\ UNCHANGED <<envVars, bakFile, catVars, genVars, trVars, mkVars>>

GsyCalls == \E ow \in BOOLEAN : GsyCall(ow)

\* Schema regeneration: files that open, any table in each, any schema file and
\* any backup file left by an earlier run.
InitSchemaYaml ==
    /\ baseDirOk = TRUE
    /\ Directory({"ok"}, FieldChoices)
    /\ schemaFile \in SchemaFileChoices
    /\ bakFile \in {Absent, YamlFile(FALSE, [c \in {ColErr} |-> [dtype |-> "float64"]])}
    /\ NewCatalog
    /\ NoTruthReader
    /\ NoMask

NextSchemaYaml ==
    \/ SubclassInit(TRUE, FALSE)
    \/ GsyCalls
    \/ GsyGenerate
    \/ GsyOpen
    \/ GsyDump

SpecSchemaYaml == InitSchemaYaml /\ [][NextSchemaYaml]_vars

\* ------------------------------------------------------------------ truth reader
\* The base_filters keyword: absent (None), a string, or a list of strings.
KwNone == [tag |-> "none", s |-> "", v |-> <<>>]
KwStr(s) == [tag |-> "str", s |-> s, v |-> <<>>]
KwList(v) == [tag |-> "list", s |-> "", v |-> v]

BaseFilterChoices ==
    {KwNone, KwStr("x>0"), KwStr(""), KwList(<<>>), KwList(<<"x>0">>),
     KwList(<<"x>0", "z=1">>)}

TruthFilterChoices ==
    {NoFilters, FilterList(<<>>), FilterList(<<"y<5">>), FilterList(<<"y<5", "w=2">>)}

QuantityChoices == {<<"a">>, <<"a", "b">>, <<"b", "a">>}

\* kwargs.get('table_name', 'truth')
TableName == "truth"

\* sep.join(strings)
RECURSIVE Join(_, _)
Join(sep, strings) ==
    IF strings = <<>> THEN ""
    ELSE IF Len(strings) = 1 THEN strings[1]
    ELSE strings[1] \o sep \o Join(sep, Tail(strings))

\* lines 35-42: self.base_filters from the keyword.
BaseFilters(kw) ==
    IF kw.tag = "str" /\ kw.s # "" THEN <<kw.s>>
    ELSE IF kw.tag = "list" /\ kw.v # <<>> THEN kw.v
    ELSE <<>>

\* The call's filters put before the base filters.
AllFiltersCallFirst(base, native_filters) ==
    IF ~native_filters.isNone THEN native_filters.v \o base ELSE base

\* lines 91-94: all_filters.
AllFilters(base, native_filters) ==
    IF ~native_filters.isNone THEN base \o native_filters.v ELSE base

\* lines 96-99: query_where_clause.
QueryWhereClause(all_filters) ==
    IF all_filters # <<>> THEN "WHERE (" \o Join(") AND (", all_filters) \o ")"
    ELSE ""

\* lines 105-109: the query text.
Query(quantities, where) ==
    "SELECT " \o Join(", ", quantities) \o " FROM " \o TableName \o " " \o where \o ";"

\* _subclass_init(filename=..., base_filters=kw); isfile is os.path.isfile(filename).
TruthInit(kw, isfile) ==
    /\ tr_status = "new"
    /\ tr_kwargs' = kw
    /\ base_filters' = BaseFilters(kw)
    /\ tr_status' = IF isfile THEN "ready" ELSE "failed"
    /\ UNCHANGED <<dmVars, tr_gen, tr_getter, tr_queries, tr_calls, mkVars>>

\* self._iter_native_dataset(native_filters): a new generator object.
TruthIter(native_filters) ==
    /\ tr_status = "ready"
    /\ tr_gen' = [pc |-> "created", filters |-> native_filters]
    /\ UNCHANGED <<dmVars, tr_status, tr_kwargs, base_filters, tr_getter, tr_queries,
                   tr_calls, mkVars>>

\* next(generator): the body up to its one yield, then its end.
TruthNext ==
    /\ tr_gen.pc \in {"created", "suspended"}
    /\ IF tr_gen.pc = "created"
       THEN /\ tr_gen' = [tr_gen EXCEPT !.pc = "suspended"]
            /\ tr_getter' =
                  [live |-> TRUE,
                   where |-> QueryWhereClause(AllFilters(base_filters, tr_gen.filters)),
                   filters |-> tr_gen.filters]
       ELSE /\ tr_gen' = [tr_gen EXCEPT !.pc = "exhausted"]
            /\ tr_getter' = tr_getter
    /\ UNCHANGED <<dmVars, tr_status, tr_kwargs, base_filters, tr_queries, tr_calls,
                   mkVars>>

\* dc2_truth_native_quantity_getter(quantities): one cursor.execute(query).
TruthGetterCall(quantities) ==
    /\ tr_getter.live
    /\ tr_calls < MaxQueries
    /\ tr_calls' = tr_calls + 1
    /\ tr_queries' = Append(tr_queries,
                            [sql |-> Query(quantities, tr_getter.where),
                             quantities |-> quantities,
                             filters |-> tr_getter.filters])
    /\ UNCHANGED <<dmVars, tr_status, tr_kwargs, base_filters, tr_gen, tr_getter, mkVars>>

TruthConstruct == \E kw \in BaseFilterChoices, isfile \in BOOLEAN : TruthInit(kw, isfile)
TruthIterCalls == \E nf \in TruthFilterChoices : TruthIter(nf)
TruthGetterCalls == \E qs \in QuantityChoices : TruthGetterCall(qs)

\* No DC2DMCatalog in use.
NoCatalog ==
    /\ baseDirOk = FALSE
    /\ listing = {}
    /\ openOutcome = [f \in FileUniverse |-> "ok"]
    /\ fileFields = [f \in FileUniverse |-> EmptyDict]
    /\ schemaFile = Absent
    /\ bakFile = Absent
    /\ NewCatalog
    /\ status = "new"

InitTruth ==
    /\ NoCatalog
    /\ tr_status = "new"
    /\ tr_kwargs = KwNone
    /\ base_filters = <<>>
    /\ tr_gen = [pc |-> "none", filters |-> NoFilters]
    /\ tr_getter = [live |-> FALSE, where |-> "", filters |-> NoFilters]
    /\ tr_queries = <<>>
    /\ tr_calls = 0
    /\ NoMask

NextTruth ==
    \/ TruthConstruct
    \/ TruthIterCalls
    \/ TruthNext
    \/ TruthGetterCalls

SpecTruth == InitTruth /\ [][NextTruth]_vars

\* ------------------------------------------------------------------ create_basic_flag_mask
\* The boolean arrays of at most MaxLen elements.
Arrays == UNION {[1..n -> BOOLEAN] : n \in 0..MaxLen}
FlagLists == UNION {[1..k -> Arrays] : k \in 0..MaxFlags}

\* out &= (~flag) for an array out of n elements: numpy broadcasts flag to out's
\* shape, which it can when flag has n elements or one element; otherwise the
\* in-place operation raises ValueError.
AndNot(out, flag) ==
    IF Len(flag) = Len(out)
    THEN [kind |-> "ok", out |-> [i \in 1..Len(out) |-> out[i] /\ ~flag[i]]]
    ELSE IF Len(flag) = 1
    THEN [kind |-> "ok", out |-> [i \in 1..Len(out) |-> out[i] /\ ~flag[1]]]
    ELSE [kind |-> "ValueError", out |-> <<>>]

\* create_basic_flag_mask(*flags): flags[0] of an empty tuple raises IndexError.
CreateBasicFlagMask(flags) ==
    LET RECURSIVE Go(_, _)
        Go(rest, out) ==
            IF rest = <<>> THEN [kind |-> "ok", out |-> out]
            ELSE LET r == AndNot(out, Head(rest))
                 IN IF r.kind # "ok" THEN r ELSE Go(Tail(rest), r.out)
    IN IF flags = <<>> THEN [kind |-> "IndexError", out |-> <<>>]
       ELSE Go(flags, [i \in 1..Len(flags[1]) |-> TRUE])

MaskCall ==
    /\ mk_result.kind = "none"
    /\ mk_result' = CreateBasicFlagMask(mk_flags)
    /\ UNCHANGED <<dmVars, trVars, mk_flags>>

InitMask ==
    /\ NoCatalog
    /\ NoTruthReader
    /\ mk_flags \in FlagLists
    /\ mk_result = [kind |-> "none", out |-> <<>>]

NextMask == MaskCall

SpecMask == InitMask /\ [][NextMask]_vars

\* ================================================================== properties

\* ------------------------------------------------------------------ C1
\* C1: an iteration started without filters yields one getter per dataset, the
\* k-th bound to the k-th dataset of self._datasets: before the first next()
\* nothing is yielded, while it is suspended after k yields the getters yielded
\* are bound to d1..dk, and when it is exhausted they are bound to d1..dn. A
\* fresh call starts with nothing yielded, so it yields d1 first again.
C1_OneGetterPerDataset ==
    gen.filters.isNone =>
        /\ gen.pc \in {"none", "created"} => yielded = <<>>
        /\ gen.pc = "suspended" =>
              /\ gen.idx \in 1..Len(_datasets)
              /\ yielded = SubSeq(_datasets, 1, gen.idx)
        /\ gen.pc = "exhausted" => yielded = _datasets

\* An unfiltered iteration over at least two datasets has run to exhaustion.
C1_Witness ==
    /\ gen.filters.isNone
    /\ gen.pc = "exhausted"
    /\ Len(_datasets) >= 2
    /\ yielded = _datasets

\* ------------------------------------------------------------------ C2
\* C2: filters have no effect: whatever native_filters is, an iteration that is
\* exhausted has yielded one getter per dataset in order, and with use_cache
\* false has cleared every dataset's cache, as it does for native_filters=None.
C2_FiltersHaveNoEffect ==
    gen.pc = "exhausted" =>
        /\ yielded = _datasets
        /\ ~use_cache => cleared = _datasets

\* ------------------------------------------------------------------ C10
\* C10: with use_cache false the iteration clears dataset dk's cache after
\* yielding dk's getter and before yielding the next one or ending, so that the
\* datasets cleared are those yielded but the last while it is suspended, and
\* every dataset once it is exhausted; a cleared dataset keeps its place in
\* self._file_handles; with use_cache true the iteration clears nothing.
C10_ClearedAfterYield ==
    /\ use_cache => cleared = <<>>
    /\ ~use_cache =>
          /\ gen.pc \in {"none", "created"} => cleared = <<>>
          /\ gen.pc = "suspended" => cleared = SubSeq(yielded, 1, Len(yielded) - 1)
          /\ gen.pc = "exhausted" => cleared = _datasets
    /\ \A i \in DOMAIN cleared :
          /\ heap[cleared[i]].path \in DOMAIN _file_handles
          /\ _file_handles[heap[cleared[i]].path] = cleared[i]

\* ------------------------------------------------------------------ C3
\* C3: generate_schema_yaml keeps the previous schema file. A call that finds the
\* file and has overwrite false is refused and leaves the file and the backup as
\* they were. A call that finds the file and goes on has overwrite true and,
\* from its first step on, the backup holds the file as the call found it; the
\* file itself is untouched until it is opened for writing. When a call follows
\* a finished regeneration, the backup at its end is the file that one wrote.
C3_BackupBeforeRewrite ==
    /\ gsy.pc = "refused" =>
          /\ gsy.prev.exists /\ ~gsy.overwrite
          /\ schemaFile = gsy.prev
          /\ bakFile = gsy.prevBak
    /\ gsy.pc \in {"generate", "open", "dump", "done"} /\ gsy.prev.exists =>
          /\ gsy.overwrite
          /\ bakFile = gsy.prev
    /\ gsy.pc \in {"generate", "open"} => schemaFile = gsy.prev
    /\ gsy.pc = "done" /\ gsy.madeAtCall.exists => bakFile = gsy.madeAtCall

\* A second regeneration is in the middle of its rewrite: the file is open and
\* empty, and the backup holds what the first regeneration wrote.
C3_Witness ==
    /\ gsy.pc = "dump"
    /\ gsy.overwrite
    /\ gsy.madeAtCall.exists
    /\ gsy.prev = gsy.madeAtCall
    /\ DOMAIN gsy.prev.d # {}
    /\ schemaFile = Truncated
    /\ bakFile = gsy.prev

\* ------------------------------------------------------------------ C4
\* C4: after every successful construction the schema is non-empty.
C4_SchemaNonEmpty ==
    status = "ready" => (~_schema.isNone /\ DOMAIN _schema.d # {})

\* ------------------------------------------------------------------ C5
Paren(f) == "(" \o f \o ")"

RECURSIVE AndOf(_)
AndOf(filters) ==
    IF Len(filters) = 1 THEN Paren(filters[1])
    ELSE Paren(filters[1]) \o " AND " \o AndOf(Tail(filters))

RECURSIVE CommaList(_)
CommaList(names) ==
    IF names = <<>> THEN ""
    ELSE IF Len(names) = 1 THEN names[1]
    ELSE names[1] \o ", " \o CommaList(Tail(names))

\* The query text the claim gives for quantities, base filters B and call filters F.
ClaimedQuery(quantities, B, F) ==
    "SELECT " \o CommaList(quantities) \o " FROM truth "
        \o (IF B \o F = <<>> THEN "" ELSE "WHERE " \o AndOf(B \o F)) \o ";"

CallFilters(native_filters) == IF native_filters.isNone THEN <<>> ELSE native_filters.v

\* The base filters as the claim reads the keyword: a string is a one-element list.
ClaimedBase(kw) ==
    IF kw.tag = "str" THEN <<kw.s>> ELSE IF kw.tag = "list" THEN kw.v ELSE <<>>

\* The base filters with the empty string read as no filter.
AmendedBase(kw) ==
    IF kw.tag = "str" THEN (IF kw.s = "" THEN <<>> ELSE <<kw.s>>)
    ELSE IF kw.tag = "list" THEN kw.v ELSE <<>>

\* C5 as stated: every query executed is SELECT q1, ..., qj FROM truth WHERE (b1)
\* AND ... AND (f1) AND ...; with the base filters first, the WHERE clause left
\* out exactly when there is no filter, and a base_filters string taken as a
\* one-element list.
C5_QueryAsClaimed ==
    \A i \in DOMAIN tr_queries :
        tr_queries[i].sql =
            ClaimedQuery(tr_queries[i].quantities, ClaimedBase(tr_kwargs),
                         CallFilters(tr_queries[i].filters))

\* C5 as amended: the same, with a non-empty base_filters string taken as a
\* one-element list and an empty string, like None or an empty list, as no base
\* filter; and each getter call executes exactly one query.
C5_QueryText ==
    /\ Len(tr_queries) = tr_calls
    /\ \A i \in DOMAIN tr_queries :
          tr_queries[i].sql =
              ClaimedQuery(tr_queries[i].quantities, AmendedBase(tr_kwargs),
                           CallFilters(tr_queries[i].filters))

\* The example of the specification: quantities a, b, base filter x>0 given as a
\* string, call filter y<5.
C5_Witness ==
    \E i \in DOMAIN tr_queries :
        /\ tr_kwargs = KwStr("x>0")
        /\ tr_queries[i].filters = FilterList(<<"y<5">>)
        /\ tr_queries[i].quantities = <<"a", "b">>
        /\ tr_queries[i].sql = "SELECT a, b FROM truth WHERE (x>0) AND (y<5);"

\* ------------------------------------------------------------------ C6
IsOpen(i) == openLog[i].op = "open"
ClosesBefore(i) == Cardinality({k \in 1..(i - 1) : openLog[k].op = "close"})

\* C6: of the handles _open_parquet returned, two for the same path with no
\* close_all_file_handles between them are the same handle, and two with a
\* close_all_file_handles between them are different handles; a handle is
\* constructed only by the first open of a path since the last close_all; after
\* close_all_file_handles the handle cache is empty.
C6_HandleCache ==
    /\ \A i, j \in DOMAIN openLog :
          (i < j /\ IsOpen(i) /\ IsOpen(j)) =>
              IF ClosesBefore(i) = ClosesBefore(j)
              THEN openLog[i].path = openLog[j].path
                      => openLog[i].handle = openLog[j].handle
              ELSE openLog[i].handle # openLog[j].handle
    /\ Len(heap) = Cardinality({<<openLog[i].path, ClosesBefore(i)>> :
                                   i \in {k \in DOMAIN openLog : IsOpen(k)}})
    /\ (openLog # <<>> /\ openLog[Len(openLog)].op = "close") => DOMAIN _file_handles = {}

\* A path opened twice, then close_all_file_handles, then the path opened again.
C6_Witness ==
    \E i, j, k, l \in DOMAIN openLog :
        /\ i < j /\ j < k /\ k < l
        /\ IsOpen(i) /\ IsOpen(j) /\ ~IsOpen(k) /\ IsOpen(l)
        /\ openLog[i].path = openLog[j].path
        /\ openLog[j].path = openLog[l].path
        /\ ClosesBefore(i) = ClosesBefore(j)

\* ------------------------------------------------------------------ C7
\* The names of FileUniverse that r'source_visit_\d+\.parquet$' matches from
\* their start, each with its place in lexicographic order: '.' sorts before '0'.
PatternNames == {Visit1, Visit10, Visit2}
Rank(f) == IF f = Visit1 THEN 1 ELSE IF f = Visit10 THEN 2 ELSE 3

DatasetPaths == [i \in DOMAIN _datasets |-> heap[_datasets[i]].path]

ExpectedVersion(cols) ==
    IF ColSigma \in cols THEN 1 ELSE IF ColErr \in cols THEN 2 ELSE 3

\* C8: a catalog constructed without is_dpdd has version 1 if a column ends with
\* _fluxSigma, otherwise 2 if a column ends with _fluxErr, otherwise 3; one
\* constructed with is_dpdd has no version detected and maps every schema column
\* to None.
C8_VersionDetection ==
    status = "ready" =>
        IF is_dpdd
        THEN /\ dm_schema_version = 0
             /\ _quantity_modifiers = [col \in DOMAIN _schema.d |-> "None"]
        ELSE /\ dm_schema_version \in {1, 2, 3}
             /\ dm_schema_version = ExpectedVersion(DOMAIN _schema.d)

\* A schema with a _fluxSigma column and a _fluxErr column resolved to version 1.
C8_Witness ==
    /\ status = "ready"
    /\ ~is_dpdd
    /\ {ColSigma, ColErr} \subseteq DOMAIN _schema.d
    /\ dm_schema_version = 1

\* ------------------------------------------------------------------ C9
SameLength(flags) == \A i \in DOMAIN flags : Len(flags[i]) = Len(flags[1])

\* C9: for a non-empty list of arrays of one length n the mask has n elements,
\* element i true iff every array is false at i; an empty list is rejected with
\* an error; arrays of differing lengths are rejected with an error.
C9_FlagMask ==
    mk_result.kind # "none" =>
        /\ mk_flags = <<>> => mk_result.kind # "ok"
        /\ (mk_flags # <<>> /\ SameLength(mk_flags)) =>
              /\ mk_result.kind = "ok"
              /\ Len(mk_result.out) = Len(mk_flags[1])
              /\ \A i \in 1..Len(mk_flags[1]) :
                    mk_result.out[i] = (\A k \in DOMAIN mk_flags : ~mk_flags[k][i])
        /\ (mk_flags # <<>> /\ ~SameLength(mk_flags)) => mk_result.kind # "ok"

====
